---- MODULE Spec2Model ----
(***************************************************************************)
(* ws-relay: the token/session relay engine (relay.go) driven by the HTTP  *)
(* handlers and the melody connect/disconnect callbacks (main), with the   *)
(* ttlcache expiry sweep running beside them.                              *)
(*                                                                         *)
(* Every engine method is split at the points where it can block or where  *)
(* another goroutine can observe it: taking r.mu, the cache call (which    *)
(* takes the cache's own mutex), each turn of SendData's loop (a Read and  *)
(* the Write of what it returned) and the return (the deferred unlock).    *)
(* A call enters the model when its Lock or RLock takes effect.            *)
(***************************************************************************)
EXTENDS Integers, Sequences, FiniteSets, TLC

\* ------------------------------------------------------------------ bounds
NumTokens == 2
NumChannels == 2
NumWorkers == 3
MaxSends == 1
\* the sends beyond MaxSends that the specification of concurrent sends allows
MoreSends == 1
MaxBody == 2
\* relay.go allocates a 4 KiB buffer; the model scales it down.
ChunkSize == 2

\* ------------------------------------------------------------- the universe
Tokens == 1..NumTokens
\* a token string no POST /session ever returned
UnknownToken == 0
\* the connection carries no "token" key
NoKey == -1
Channels == 1..NumChannels
\* wsRelayConn.session == nil
Nil == 0
Workers == 1..NumWorkers
\* the goroutine of the cache that runs the expiry sweep
SweepProc == 0
Procs == {SweepProc} \cup Workers

\* r.mu, the field of WSRelay that the methods lock
EngineMutex == "r.mu"
\* a callback that locks the mutex the methods lock
CheckExpirationMutexShared == EngineMutex
\* the mutex the expiration callback closes over: the local variable mu of
\* NewWSRelay, which the returned struct literal does not copy into r.mu
CheckExpirationMutex == "mu"
Mutexes == {EngineMutex, "mu"}

VARIABLES
    pc,         \* each goroutine's position
    tok,        \* the token argument of the call a worker runs
    chn,        \* the session argument (connect / disconnect handler)
    bodyLen,    \* SendData: the body is <<1, ..., bodyLen>>
    pos,        \* SendData: bytes the reader has handed over so far
    rd,         \* SendData: the body reader, "open", "eof" or "err"
    sent,       \* SendData: the frames the call has written, <<session, chunk>>
    res,        \* the error value the call returns
    items,      \* the cache: the tokens that have an entry
    expired,    \* the entries whose TTL deadline has passed
    session,    \* the heap: wsRelayConn.session of each token's record
    issued,     \* the tokens generateToken has produced
    muW,        \* per RWMutex: the writer that holds or has announced Lock
    muR,        \* per RWMutex: the readers
    cacheMu,    \* the cache's internal mutex: its holder
    ch,         \* each melody session's connect: "fresh", "connecting", "accepted", "rejected"
    life,       \* each melody session: "open", "closing" (Close called), "closed", "gone"
    chKey,      \* each melody session's Keys["token"]
    frames,     \* the number of frames written to each session
    tokenCounter,
    tokenRemovedCounter,
    tokenBytes,
    tokenMessages,
    histogram,  \* messageSizeHistogram: observations per size
    swItem,     \* the entry the sweep is examining
    swVerdict,  \* what the callback returned for it
    swLive,     \* the entry held an open session when the callback read it
    disposed,   \* the tokens for which a DisposeToken call has returned
    nSends      \* SendData calls started

vars == <<pc, tok, chn, bodyLen, pos, rd, sent, res, items,
          expired, session, issued, muW, muR, cacheMu, ch, life, chKey, frames,
          tokenCounter, tokenRemovedCounter, tokenBytes, tokenMessages,
          histogram, swItem, swVerdict, swLive, disposed, nSends>>

locals == <<tok, chn, bodyLen, pos, rd, sent, res>>
locks == <<muW, muR, cacheMu>>
table == <<items, expired, session>>
chans == <<ch, life, chKey, frames>>
sendMetrics == <<tokenBytes, tokenMessages, histogram>>
metrics == <<tokenCounter, tokenRemovedCounter, tokenBytes, tokenMessages, histogram>>
sweepVars == <<swItem, swVerdict, swLive>>

\* ------------------------------------------------------------------ helpers
Min(a, b) == IF a < b THEN a ELSE b

\* the bytes of a body of length n: byte i is i, so a dropped, repeated or
\* moved byte shows
Body(n) == [i \in 1..n |-> i]

RECURSIVE Flatten(_)
Flatten(chunks) ==
    IF chunks = <<>> THEN <<>> ELSE Head(chunks) \o Flatten(Tail(chunks))

\* the chunks among frames, in order
Chunks(fs) == [i \in 1..Len(fs) |-> fs[i][2]]

\* melody: Session.IsClosed
IsClosed(c) == life[c] \in {"closed", "gone"}

\* sync.RWMutex: Lock() announces the writer, which keeps later readers out,
\* and returns once the readers that were in have left
LockAnnounce(m, p) == muW[m] = {} /\ muW' = [muW EXCEPT ![m] = {p}]
LockGranted(m) == muR[m] = {}
Unlock(m) == muW' = [muW EXCEPT ![m] = {}]
RLock(m, p) == muW[m] = {} /\ muR' = [muR EXCEPT ![m] = @ \cup {p}]
RUnlock(m, p) == muR' = [muR EXCEPT ![m] = @ \ {p}]

\* the goroutines that serve requests are alike: a request takes the first
\* free one
FreeWorker(p) == pc[p] = "idle" /\ \A q \in Workers : q < p => pc[q] # "idle"

\* a call ends: the worker is free again and its locals are dead
Finish(p) ==
    /\ pc' = [pc EXCEPT ![p] = "idle"]
    /\ tok' = [tok EXCEPT ![p] = UnknownToken]
    /\ chn' = [chn EXCEPT ![p] = Nil]
    /\ bodyLen' = [bodyLen EXCEPT ![p] = 0]
    /\ pos' = [pos EXCEPT ![p] = 0]
    /\ rd' = [rd EXCEPT ![p] = "open"]
    /\ sent' = [sent EXCEPT ![p] = <<>>]
    /\ res' = [res EXCEPT ![p] = "none"]

Goto(p, l) == pc' = [pc EXCEPT ![p] = l]

\* where a call goes once r.mu.Lock() has announced: on if no reader is in
AfterLock(p, waiting, locked) ==
    Goto(p, IF LockGranted(EngineMutex) THEN locked ELSE waiting)

\* --------------------------------------------------------------------- Init
Init ==
    /\ pc = [p \in Procs |-> "idle"]
    /\ tok = [p \in Workers |-> UnknownToken]
    /\ chn = [p \in Workers |-> Nil]
    /\ bodyLen = [p \in Workers |-> 0]
    /\ pos = [p \in Workers |-> 0]
    /\ rd = [p \in Workers |-> "open"]
    /\ sent = [p \in Workers |-> <<>>]
    /\ res = [p \in Workers |-> "none"]
    /\ items = {}
    /\ expired = {}
    /\ session = [t \in Tokens |-> Nil]
    /\ issued = {}
    /\ muW = [m \in Mutexes |-> {}]
    /\ muR = [m \in Mutexes |-> {}]
    /\ cacheMu = {}
    /\ ch = [c \in Channels |-> "fresh"]
    /\ life = [c \in Channels |-> "open"]
    /\ chKey = [c \in Channels |-> NoKey]
    /\ frames = [c \in Channels |-> 0]
    /\ tokenCounter = 0
    /\ tokenRemovedCounter = 0
    /\ tokenBytes = [t \in Tokens |-> 0]
    /\ tokenMessages = [t \in Tokens |-> 0]
    /\ histogram = [n \in 1..ChunkSize |-> 0]
    /\ swItem = UnknownToken
    /\ swVerdict = FALSE
    /\ swLive = FALSE
    /\ disposed = {}
    /\ nSends = 0

\* ------------------------------------------------- POST /session, RegisterToken
\* generateToken: a ULID, unique and increasing
generateToken == Cardinality(issued) + 1

\* the handler mints a token and calls RegisterToken; r.mu.Lock() announces
HandleSession(p) ==
    /\ FreeWorker(p)
    /\ generateToken \in Tokens
    /\ LockAnnounce(EngineMutex, p)
    /\ issued' = issued \cup {generateToken}
    /\ tok' = [tok EXCEPT ![p] = generateToken]
    /\ AfterLock(p, "rt_wait", "rt_set")
    /\ UNCHANGED <<chn, bodyLen, pos, rd, sent, res, table, muR,
                   cacheMu, chans, metrics, sweepVars, disposed, nSends>>

\* r.mu.Lock() returns once the readers have left
RegisterTokenLocked(p) ==
    /\ pc[p] = "rt_wait"
    /\ LockGranted(EngineMutex)
    /\ Goto(p, "rt_set")
    /\ UNCHANGED <<locals, table, issued, locks, chans, metrics, sweepVars,
                   disposed, nSends>>

\* r.cache.Set(token, newWSRelayConn(nil)): a fresh record with a fresh
\* deadline; then tokenCounter.Inc() and the deferred r.mu.Unlock()
RegisterTokenSet(p) ==
    /\ pc[p] = "rt_set"
    /\ cacheMu = {}
    /\ items' = items \cup {tok[p]}
    /\ expired' = expired \ {tok[p]}
    /\ session' = [session EXCEPT ![tok[p]] = Nil]
    /\ tokenCounter' = tokenCounter + 1
    /\ Unlock(EngineMutex)
    /\ Finish(p)
    /\ UNCHANGED <<issued, muR, cacheMu, chans, tokenRemovedCounter,
                   sendMetrics, sweepVars, disposed, nSends>>

\* ------------------------------------- GET /session/receive/, HandleConnect
\* the sessions are used in order
NextChannel ==
    CHOOSE c \in Channels : ch[c] = "fresh" /\ \A d \in Channels : ch[d] = "fresh" => c <= d

\* what a client can put in the URL: a token a POST /session has returned, or
\* anything else
UrlTokens ==
    {t \in issued : \A q \in Workers : ~(pc[q] \in {"rt_wait", "rt_set"} /\ tok[q] = t)}
        \cup {UnknownToken}

\* melody upgrades the request and calls the connect handler with the session,
\* whose Keys hold the URL's token; the handler calls RegisterSession, whose
\* r.mu.Lock() announces
HandleConnect(p) ==
    /\ FreeWorker(p)
    /\ \E c \in Channels : ch[c] = "fresh"
    /\ LockAnnounce(EngineMutex, p)
    /\ \E k \in UrlTokens :
        /\ chKey' = [chKey EXCEPT ![NextChannel] = k]
        /\ tok' = [tok EXCEPT ![p] = k]
    /\ ch' = [ch EXCEPT ![NextChannel] = "connecting"]
    /\ chn' = [chn EXCEPT ![p] = NextChannel]
    /\ AfterLock(p, "rs_wait", "rs_get")
    /\ UNCHANGED <<bodyLen, pos, rd, sent, res, table, issued, muR,
                   cacheMu, life, frames, metrics, sweepVars, disposed, nSends>>

\* a session whose Keys hold no token: the handler closes it and returns
HandleConnectNoToken(p) ==
    /\ FreeWorker(p)
    /\ \E c \in Channels : ch[c] = "fresh"
    /\ ch' = [ch EXCEPT ![NextChannel] = "rejected"]
    /\ life' = [life EXCEPT ![NextChannel] = "closing"]
    /\ chKey' = [chKey EXCEPT ![NextChannel] = NoKey]
    /\ UNCHANGED <<pc, locals, table, issued, locks, frames, metrics,
                   sweepVars, disposed, nSends>>

RegisterSessionLocked(p) ==
    /\ pc[p] = "rs_wait"
    /\ LockGranted(EngineMutex)
    /\ Goto(p, "rs_get")
    /\ UNCHANGED <<locals, table, issued, locks, chans, metrics, sweepVars,
                   disposed, nSends>>

\* value, exists := r.cache.Get(token) finds the record
RegisterSessionGet(p) ==
    /\ pc[p] = "rs_get"
    /\ cacheMu = {}
    /\ tok[p] \in items
    /\ Goto(p, "rs_assign")
    /\ UNCHANGED <<locals, table, issued, locks, chans, metrics, sweepVars,
                   disposed, nSends>>

\* a handler that logs the error of RegisterSession and leaves the session open
RegisterSessionNotFoundLeftOpen(p) ==
    /\ pc[p] = "rs_get"
    /\ cacheMu = {}
    /\ tok[p] \notin items
    /\ Unlock(EngineMutex)
    /\ ch' = [ch EXCEPT ![chn[p]] = "rejected"]
    /\ Finish(p)
    /\ UNCHANGED <<table, issued, muR, cacheMu, life, chKey, frames, metrics,
                   sweepVars, disposed, nSends>>

\* Get finds nothing: RegisterSession returns "token not found" (the deferred
\* r.mu.Unlock()), and the handler closes the session
RegisterSessionNotFound(p) ==
    /\ pc[p] = "rs_get"
    /\ cacheMu = {}
    /\ tok[p] \notin items
    /\ Unlock(EngineMutex)
    /\ ch' = [ch EXCEPT ![chn[p]] = "rejected"]
    /\ life' = [life EXCEPT ![chn[p]] = "closing"]
    /\ Finish(p)
    /\ UNCHANGED <<table, issued, muR, cacheMu, chKey, frames, metrics,
                   sweepVars, disposed, nSends>>

\* conn.session = session, on the record Get returned; return nil (the
\* deferred r.mu.Unlock()), and the handler keeps the session
RegisterSessionAssign(p) ==
    /\ pc[p] = "rs_assign"
    /\ session' = [session EXCEPT ![tok[p]] = chn[p]]
    /\ Unlock(EngineMutex)
    /\ ch' = [ch EXCEPT ![chn[p]] = "accepted"]
    /\ Finish(p)
    /\ UNCHANGED <<items, expired, issued, muR, cacheMu, life, chKey, frames,
                   metrics, sweepVars, disposed, nSends>>

\* ------------------------------------------ the session ends, HandleDisconnect
\* the connection closes (the peer leaves, or the close the handler asked for
\* completes): from here on IsClosed() is true
SessionClose(c) ==
    /\ ch[c] \in {"accepted", "rejected"}
    /\ life[c] \in {"open", "closing"}
    /\ life' = [life EXCEPT ![c] = "closed"]
    /\ UNCHANGED <<pc, locals, table, issued, locks, ch, chKey, frames, metrics,
                   sweepVars, disposed, nSends>>

\* a disconnect handler that does not call DisposeToken
HandleDisconnectNoDispose(p, c) ==
    /\ FreeWorker(p)
    /\ life[c] = "closed"
    /\ chKey[c] # NoKey
    /\ life' = [life EXCEPT ![c] = "gone"]
    /\ UNCHANGED <<pc, locals, table, issued, locks, ch, chKey, frames, metrics,
                   sweepVars, disposed, nSends>>

\* melody calls the disconnect handler; with a token in Keys it calls
\* DisposeToken, whose r.mu.Lock() announces
HandleDisconnect(p, c) ==
    /\ FreeWorker(p)
    /\ life[c] = "closed"
    /\ chKey[c] # NoKey
    /\ LockAnnounce(EngineMutex, p)
    /\ life' = [life EXCEPT ![c] = "gone"]
    /\ tok' = [tok EXCEPT ![p] = chKey[c]]
    /\ AfterLock(p, "dt_wait", "dt_remove")
    /\ UNCHANGED <<chn, bodyLen, pos, rd, sent, res, table, issued,
                   muR, cacheMu, ch, chKey, frames, metrics, sweepVars,
                   disposed, nSends>>

\* no token in Keys: the handler returns
HandleDisconnectNoToken(c) ==
    /\ life[c] = "closed"
    /\ chKey[c] = NoKey
    /\ life' = [life EXCEPT ![c] = "gone"]
    /\ UNCHANGED <<pc, locals, table, issued, locks, ch, chKey, frames, metrics,
                   sweepVars, disposed, nSends>>

DisposeTokenLocked(p) ==
    /\ pc[p] = "dt_wait"
    /\ LockGranted(EngineMutex)
    /\ Goto(p, "dt_remove")
    /\ UNCHANGED <<locals, table, issued, locks, chans, metrics, sweepVars,
                   disposed, nSends>>

\* a DisposeToken that counts and logs but leaves the entry in the cache
DisposeTokenRemoveSkipped(p) ==
    /\ pc[p] = "dt_remove"
    /\ cacheMu = {}
    /\ tokenRemovedCounter' = tokenRemovedCounter + 1
    /\ disposed' = disposed \cup ({tok[p]} \cap Tokens)
    /\ Unlock(EngineMutex)
    /\ Finish(p)
    /\ UNCHANGED <<table, issued, muR, cacheMu, chans, tokenCounter,
                   sendMetrics, sweepVars, nSends>>

\* r.cache.Remove(token), tokenRemovedCounter.Inc() and the deferred
\* r.mu.Unlock()
DisposeTokenRemove(p) ==
    /\ pc[p] = "dt_remove"
    /\ cacheMu = {}
    /\ items' = items \ {tok[p]}
    /\ expired' = expired \ {tok[p]}
    /\ tokenRemovedCounter' = tokenRemovedCounter + 1
    /\ disposed' = disposed \cup ({tok[p]} \cap Tokens)
    /\ Unlock(EngineMutex)
    /\ Finish(p)
    /\ UNCHANGED <<session, issued, muR, cacheMu, chans, tokenCounter,
                   sendMetrics, sweepVars, nSends>>

\* ------------------------------------------- POST /session/send/, SendData
\* a SendData that does not take r.mu
HandleSendUnlocked(p) ==
    /\ FreeWorker(p)
    /\ nSends < MaxSends
    /\ \E t \in UrlTokens, n \in 0..MaxBody :
        /\ tok' = [tok EXCEPT ![p] = t]
        /\ bodyLen' = [bodyLen EXCEPT ![p] = n]
    /\ nSends' = nSends + 1
    /\ Goto(p, "sd_get")
    /\ UNCHANGED <<chn, pos, rd, sent, res, table, issued, locks,
                   chans, metrics, sweepVars, disposed>>

\* the handler calls SendData(token, r.Body); r.mu.RLock() is taken
HandleSend(p) ==
    /\ FreeWorker(p)
    /\ nSends < MaxSends
    /\ RLock(EngineMutex, p)
    /\ \E t \in UrlTokens, n \in 0..MaxBody :
        /\ tok' = [tok EXCEPT ![p] = t]
        /\ bodyLen' = [bodyLen EXCEPT ![p] = n]
    /\ nSends' = nSends + 1
    /\ Goto(p, "sd_get")
    /\ UNCHANGED <<chn, pos, rd, sent, res, table, issued, muW, cacheMu,
                   chans, metrics, sweepVars, disposed>>

\* a SendData whose two early returns give the same error
SendDataGetOneError(p) ==
    /\ pc[p] = "sd_get"
    /\ cacheMu = {}
    /\ IF tok[p] \notin items \/ session[tok[p]] = Nil
         THEN Goto(p, "sd_ret") /\ res' = [res EXCEPT ![p] = "NoSession"]
         ELSE Goto(p, "sd_read") /\ UNCHANGED res
    /\ UNCHANGED <<tok, chn, bodyLen, pos, rd, sent, table,
                   issued, locks, chans, metrics, sweepVars, disposed, nSends>>

\* a SendData that drops the record of a token it finds unbound
SendDataGetDropsUnbound(p) ==
    /\ pc[p] = "sd_get"
    /\ cacheMu = {}
    /\ IF tok[p] \notin items
         THEN Goto(p, "sd_ret") /\ res' = [res EXCEPT ![p] = "TokenNotFound"] /\ UNCHANGED items
         ELSE IF session[tok[p]] = Nil
         THEN Goto(p, "sd_ret") /\ res' = [res EXCEPT ![p] = "NoSession"]
              /\ items' = items \ {tok[p]}
         ELSE Goto(p, "sd_read") /\ UNCHANGED <<res, items>>
    /\ UNCHANGED <<tok, chn, bodyLen, pos, rd, sent, expired, session,
                   issued, locks, chans, metrics, sweepVars, disposed, nSends>>

\* r.cache.Get(token), then the two early returns
SendDataGet(p) ==
    /\ pc[p] = "sd_get"
    /\ cacheMu = {}
    /\ IF tok[p] \notin items
         THEN Goto(p, "sd_ret") /\ res' = [res EXCEPT ![p] = "TokenNotFound"]
         ELSE IF session[tok[p]] = Nil
         THEN Goto(p, "sd_ret") /\ res' = [res EXCEPT ![p] = "NoSession"]
         ELSE Goto(p, "sd_read") /\ UNCHANGED res
    /\ UNCHANGED <<tok, chn, bodyLen, pos, rd, sent, table,
                   issued, locks, chans, metrics, sweepVars, disposed, nSends>>

\* what body.Read(buf) may return with n bytes: an io.Reader reports the end
\* with the last bytes or after them, an error at any point, and repeats both
ReadResults(p, n) ==
    IF rd[p] = "eof" THEN {"EOF"}
    ELSE IF rd[p] = "err" THEN {"ReadError"}
    ELSE (IF n > 0 \/ pos[p] < bodyLen[p] THEN {"nil"} ELSE {})
         \cup (IF pos[p] + n = bodyLen[p] THEN {"EOF"} ELSE {})
         \cup {"ReadError"}

\* the sizes a Read may return: up to the buffer, up to what is left
ReadSizes(p) == IF rd[p] = "open" THEN 0..Min(ChunkSize, bodyLen[p] - pos[p]) ELSE {0}

\* the reader after a Read that returned e
ReaderAfter(p, e) == IF e = "EOF" THEN "eof" ELSE IF e = "ReadError" THEN "err" ELSE rd[p]

\* a chunk taken from the start of the body whatever has been read
ChunkFromStart(p, n) == SubSeq(Body(bodyLen[p]), 1, n)

\* the chunk buf[:n] of a Read of n bytes
Chunk(p, n) == SubSeq(Body(bodyLen[p]), pos[p] + 1, pos[p] + n)

\* a loop that takes a Read of too few bytes for the end of the body
SendDataReadEmptyShort(p) ==
    /\ pc[p] = "sd_read"
    /\ \E e \in ReadResults(p, 0) \cup {"short"} :
        /\ rd' = [rd EXCEPT ![p] = ReaderAfter(p, e)]
        /\ IF e = "nil" THEN UNCHANGED <<pc, res>>
           ELSE /\ Goto(p, "sd_ret")
                /\ res' = [res EXCEPT ![p] = IF e \in {"EOF", "short"} THEN "nil" ELSE e]
    /\ UNCHANGED <<tok, chn, bodyLen, pos, sent, table, issued, locks, chans,
                   metrics, sweepVars, disposed, nSends>>

\* n, err := body.Read(buf) returns no bytes: nothing is written; err == io.EOF
\* ends the loop and SendData returns nil, any other error is returned, and
\* with no error the loop reads again
SendDataReadEmpty(p) ==
    /\ pc[p] = "sd_read"
    /\ \E e \in ReadResults(p, 0) :
        /\ rd' = [rd EXCEPT ![p] = ReaderAfter(p, e)]
        /\ IF e = "nil" THEN UNCHANGED <<pc, res>>
           ELSE /\ Goto(p, "sd_ret")
                /\ res' = [res EXCEPT ![p] = IF e = "EOF" THEN "nil" ELSE e]
    /\ UNCHANGED <<tok, chn, bodyLen, pos, sent, table, issued, locks, chans,
                   metrics, sweepVars, disposed, nSends>>

\* a loop that leaves the chunk that came with io.EOF out of the metrics
SendDataChunkLastUncounted(p) ==
    /\ pc[p] = "sd_read"
    /\ ~IsClosed(session[tok[p]])
    /\ \E n \in ReadSizes(p) \ {0} : \E e \in ReadResults(p, n) :
        /\ rd' = [rd EXCEPT ![p] = ReaderAfter(p, e)]
        /\ pos' = [pos EXCEPT ![p] = @ + n]
        /\ sent' = [sent EXCEPT ![p] = Append(@, <<session[tok[p]], Chunk(p, n)>>)]
        /\ frames' = [frames EXCEPT ![session[tok[p]]] = @ + 1]
        /\ IF e = "EOF" THEN UNCHANGED sendMetrics
           ELSE /\ histogram' = [histogram EXCEPT ![n] = @ + 1]
                /\ tokenBytes' = [tokenBytes EXCEPT ![tok[p]] = @ + n]
                /\ tokenMessages' = [tokenMessages EXCEPT ![tok[p]] = @ + 1]
    /\ UNCHANGED <<pc, tok, chn, bodyLen, res, table, issued, locks, ch,
                   life, chKey, tokenCounter, tokenRemovedCounter, sweepVars,
                   disposed, nSends>>

\* n, err := body.Read(buf) returns n > 0 bytes and conn.session.Write(buf[:n])
\* succeeds: the frame goes out and the three metrics are updated. The Write
\* assigns its nil to err, so whatever the Read reported with the bytes, the
\* test of err passes and the loop reads again
SendDataChunk(p) ==
    /\ pc[p] = "sd_read"
    /\ ~IsClosed(session[tok[p]])
    /\ \E n \in ReadSizes(p) \ {0} : \E e \in ReadResults(p, n) :
        /\ rd' = [rd EXCEPT ![p] = ReaderAfter(p, e)]
        /\ pos' = [pos EXCEPT ![p] = @ + n]
        /\ sent' = [sent EXCEPT ![p] = Append(@, <<session[tok[p]], Chunk(p, n)>>)]
        /\ frames' = [frames EXCEPT ![session[tok[p]]] = @ + 1]
        /\ histogram' = [histogram EXCEPT ![n] = @ + 1]
        /\ tokenBytes' = [tokenBytes EXCEPT ![tok[p]] = @ + n]
        /\ tokenMessages' = [tokenMessages EXCEPT ![tok[p]] = @ + 1]
    /\ UNCHANGED <<pc, tok, chn, bodyLen, res, table, issued, locks, ch,
                   life, chKey, tokenCounter, tokenRemovedCounter, sweepVars,
                   disposed, nSends>>

\* a loop that counts a chunk before it knows the Write went through
SendDataWriteFailsCounted(p) ==
    /\ pc[p] = "sd_read"
    /\ \E n \in ReadSizes(p) \ {0} : \E e \in ReadResults(p, n) :
        /\ rd' = [rd EXCEPT ![p] = ReaderAfter(p, e)]
        /\ pos' = [pos EXCEPT ![p] = @ + n]
        /\ histogram' = [histogram EXCEPT ![n] = @ + 1]
        /\ tokenBytes' = [tokenBytes EXCEPT ![tok[p]] = @ + n]
        /\ tokenMessages' = [tokenMessages EXCEPT ![tok[p]] = @ + 1]
    /\ res' = [res EXCEPT ![p] = "WriteError"]
    /\ Goto(p, "sd_ret")
    /\ UNCHANGED <<tok, chn, bodyLen, sent, table, issued, locks, chans,
                   tokenCounter, tokenRemovedCounter, sweepVars, disposed, nSends>>

\* the Read returns n > 0 bytes and the Write fails (the session is closed, or
\* the transport fails): SendData returns the Write's error at once
SendDataWriteFails(p) ==
    /\ pc[p] = "sd_read"
    /\ \E n \in ReadSizes(p) \ {0} : \E e \in ReadResults(p, n) :
        /\ rd' = [rd EXCEPT ![p] = ReaderAfter(p, e)]
        /\ pos' = [pos EXCEPT ![p] = @ + n]
    /\ res' = [res EXCEPT ![p] = "WriteError"]
    /\ Goto(p, "sd_ret")
    /\ UNCHANGED <<tok, chn, bodyLen, sent, table, issued, locks, chans, metrics,
                   sweepVars, disposed, nSends>>

\* the deferred r.mu.RUnlock()
SendDataReturn(p) ==
    /\ pc[p] = "sd_ret"
    /\ RUnlock(EngineMutex, p)
    /\ Finish(p)
    /\ UNCHANGED <<table, issued, muW, cacheMu, chans, metrics, sweepVars,
                   disposed, nSends>>

\* --------------------------------------------------- the cache's expiry sweep
\* cache.SetTTL(15 * time.Minute): time passes and an entry's deadline with it
TTLElapse(t) ==
    /\ t \in items \ expired
    /\ expired' = expired \cup {t}
    /\ UNCHANGED <<pc, locals, items, session, issued, locks, chans, metrics,
                   sweepVars, disposed, nSends>>

\* the sweep wakes up and takes the cache's mutex
SweepBegin ==
    /\ pc[SweepProc] = "idle"
    /\ cacheMu = {}
    /\ items \cap expired # {}
    /\ cacheMu' = {SweepProc}
    /\ Goto(SweepProc, "sw_next")
    /\ UNCHANGED <<locals, table, issued, muW, muR, chans, metrics, sweepVars,
                   disposed, nSends>>

\* a callback with the test of IsClosed turned round
CheckExpirationCallbackInverted(t) ==
    ~(session[t] = Nil \/ ~IsClosed(session[t]))

\* a callback that tests only for a nil session
CheckExpirationCallbackNilOnly(t) ==
    ~(session[t] = Nil)

\* the function given to SetCheckExpirationCallback: false lets the entry
\* expire, true prevents it from expiring
CheckExpirationCallback(t) ==
    ~(session[t] = Nil \/ IsClosed(session[t]))

\* the sweep calls the callback on an entry past its deadline; the callback
\* takes its mutex for reading, counts a removal when it returns false, and
\* releases the mutex
SweepExamine(t) ==
    /\ pc[SweepProc] = "sw_next"
    /\ t \in items \cap expired
    /\ muW[CheckExpirationMutex] = {}
    /\ swItem' = t
    /\ swVerdict' = CheckExpirationCallback(t)
    /\ swLive' = (session[t] # Nil /\ life[session[t]] \in {"open", "closing"})
    /\ tokenRemovedCounter' =
          IF CheckExpirationCallback(t) THEN tokenRemovedCounter
          ELSE tokenRemovedCounter + 1
    /\ Goto(SweepProc, "sw_apply")
    /\ UNCHANGED <<locals, table, issued, locks, chans, tokenCounter,
                   sendMetrics, disposed, nSends>>

\* the sweep acts on the verdict: a vetoed entry gets a new deadline, any
\* other is removed
SweepApply ==
    /\ pc[SweepProc] = "sw_apply"
    /\ expired' = expired \ {swItem}
    /\ items' = IF swVerdict THEN items ELSE items \ {swItem}
    /\ Goto(SweepProc, "sw_next")
    /\ UNCHANGED <<locals, session, issued, locks, chans, metrics, sweepVars,
                   disposed, nSends>>

\* nothing past its deadline is left: the sweep releases the cache's mutex
SweepEnd ==
    /\ pc[SweepProc] = "sw_next"
    /\ items \cap expired = {}
    /\ cacheMu' = {}
    /\ swItem' = UnknownToken
    /\ swVerdict' = FALSE
    /\ swLive' = FALSE
    /\ Goto(SweepProc, "idle")
    /\ UNCHANGED <<locals, table, issued, muW, muR, chans, metrics, disposed,
                   nSends>>

\* --------------------------------------------------------------------- Next
Next ==
    \/ \E p \in Workers : HandleSession(p)
    \/ \E p \in Workers : RegisterTokenLocked(p)
    \/ \E p \in Workers : RegisterTokenSet(p)
    \/ \E p \in Workers : HandleConnect(p)
    \/ \E p \in Workers : HandleConnectNoToken(p)
    \/ \E p \in Workers : RegisterSessionLocked(p)
    \/ \E p \in Workers : RegisterSessionGet(p)
    \/ \E p \in Workers : RegisterSessionNotFound(p)
    \/ \E p \in Workers : RegisterSessionAssign(p)
    \/ \E c \in Channels : SessionClose(c)
    \/ \E p \in Workers, c \in Channels : HandleDisconnect(p, c)
    \/ \E c \in Channels : HandleDisconnectNoToken(c)
    \/ \E p \in Workers : DisposeTokenLocked(p)
    \/ \E p \in Workers : DisposeTokenRemove(p)
    \/ \E p \in Workers : HandleSend(p)
    \/ \E p \in Workers : SendDataGet(p)
    \/ \E p \in Workers : SendDataReadEmpty(p)
    \/ \E p \in Workers : SendDataChunk(p)
    \/ \E p \in Workers : SendDataWriteFails(p)
    \/ \E p \in Workers : SendDataReturn(p)
    \/ \E t \in Tokens : TTLElapse(t)
    \/ SweepBegin
    \/ \E t \in Tokens : SweepExamine(t)
    \/ SweepApply
    \/ SweepEnd

Spec == Init /\ [][Next]_vars

\* ------------------------------------------------------- concurrent sends
\* a SendData is between its RLock and its deferred RUnlock
SendInFlight ==
    \E p \in Workers : pc[p] \in {"sd_get", "sd_read", "sd_ret"}

\* a further POST /session/send/ while an earlier one is in its call: as
\* HandleSend
HandleSendAgain(p) ==
    /\ FreeWorker(p)
    /\ SendInFlight
    /\ MaxSends <= nSends
    /\ nSends < MaxSends + MoreSends
    /\ RLock(EngineMutex, p)
    /\ \E t \in UrlTokens, n \in 0..MaxBody :
        /\ tok' = [tok EXCEPT ![p] = t]
        /\ bodyLen' = [bodyLen EXCEPT ![p] = n]
    /\ nSends' = nSends + 1
    /\ Goto(p, "sd_get")
    /\ UNCHANGED <<chn, pos, rd, sent, res, table, issued, muW, cacheMu,
                   chans, metrics, sweepVars, disposed>>

\* the relay after a first token was issued, never bound, and evicted by the
\* sweep, whose callback counted it, and after a first connection came without
\* a token, was closed by the handler and has gone
InitLater ==
    /\ pc = [p \in Procs |-> "idle"]
    /\ tok = [p \in Workers |-> UnknownToken]
    /\ chn = [p \in Workers |-> Nil]
    /\ bodyLen = [p \in Workers |-> 0]
    /\ pos = [p \in Workers |-> 0]
    /\ rd = [p \in Workers |-> "open"]
    /\ sent = [p \in Workers |-> <<>>]
    /\ res = [p \in Workers |-> "none"]
    /\ items = {}
    /\ expired = {}
    /\ session = [t \in Tokens |-> Nil]
    /\ issued = 1..(NumTokens - 1)
    /\ muW = [m \in Mutexes |-> {}]
    /\ muR = [m \in Mutexes |-> {}]
    /\ cacheMu = {}
    /\ ch = [c \in Channels |-> IF c < NumChannels THEN "rejected" ELSE "fresh"]
    /\ life = [c \in Channels |-> IF c < NumChannels THEN "gone" ELSE "open"]
    /\ chKey = [c \in Channels |-> NoKey]
    /\ frames = [c \in Channels |-> 0]
    /\ tokenCounter = NumTokens - 1
    /\ tokenRemovedCounter = NumTokens - 1
    /\ tokenBytes = [t \in Tokens |-> 0]
    /\ tokenMessages = [t \in Tokens |-> 0]
    /\ histogram = [n \in 1..ChunkSize |-> 0]
    /\ swItem = UnknownToken
    /\ swVerdict = FALSE
    /\ swLive = FALSE
    /\ disposed = {}
    /\ nSends = 0

NextSends ==
    \/ Next
    \/ \E p \in Workers : HandleSendAgain(p)

SendsSpec == InitLater /\ [][NextSends]_vars

\* ------------------------------------------------------------- scheduling
\* the steps of a call that is under way, from its lock to its return
CallStep(p) ==
    \/ RegisterTokenLocked(p)
    \/ RegisterTokenSet(p)
    \/ RegisterSessionLocked(p)
    \/ RegisterSessionGet(p)
    \/ RegisterSessionNotFound(p)
    \/ RegisterSessionAssign(p)
    \/ DisposeTokenLocked(p)
    \/ DisposeTokenRemove(p)
    \/ SendDataGet(p)
    \/ SendDataReadEmpty(p)
    \/ SendDataChunk(p)
    \/ SendDataWriteFails(p)
    \/ SendDataReturn(p)

\* a pass of the sweep that is under way
SweepStep ==
    \/ \E t \in Tokens : SweepExamine(t)
    \/ SweepApply

\* goroutines are scheduled, and a goroutine that waits for a mutex gets it
\* (sync.Mutex and sync.RWMutex hand the lock to a waiter that has waited
\* long), so a call under way goes on, every body ends or fails, and the
\* disconnect handler of a closed session gets into DisposeToken; a pass of the
\* sweep goes on and ends, the TTL (15 minutes) being long against one pass
Fairness ==
    /\ \A p \in Workers : SF_vars(CallStep(p))
    /\ \A c \in Channels : SF_vars(\E p \in Workers : HandleDisconnect(p, c))
    /\ WF_vars(SweepStep)
    /\ WF_vars(SweepEnd)
    /\ []<>(pc[SweepProc] = "idle")

LiveSpec == InitLater /\ [][Next]_vars /\ Fairness

\* ------------------------------------------------------------ who waits
\* the goroutines p cannot go on without: the readers a writer waits out, the
\* holder of the cache's mutex, the writer that keeps a reader out
WaitsFor(p) ==
    IF p = SweepProc
      THEN IF pc[p] = "sw_next" /\ items \cap expired # {}
             THEN muW[CheckExpirationMutex] ELSE {}
    ELSE IF pc[p] \in {"rt_wait", "rs_wait", "dt_wait"} THEN muR[EngineMutex]
    ELSE IF pc[p] \in {"rt_set", "rs_get", "dt_remove", "sd_get"} THEN cacheMu \ {p}
    ELSE {}

RECURSIVE CanGoOn(_)
\* the goroutines that can go on: those that wait for nobody, and those that
\* wait only for goroutines that can go on
CanGoOn(S) ==
    LET T == S \cup {p \in Procs : WaitsFor(p) \subseteq S}
    IN IF T = S THEN S ELSE CanGoOn(T)

\* r.mu is held for writing: a RegisterToken, RegisterSession or DisposeToken
\* is between the return of its Lock and its deferred Unlock
WriteLocked ==
    \E p \in Workers : pc[p] \in {"rt_set", "rs_get", "rs_assign", "dt_remove"}

RECURSIVE Total(_, _)
\* the sum of f over S
Total(f, S) ==
    IF S = {} THEN 0
    ELSE LET x == CHOOSE y \in S : TRUE IN f[x] + Total(f, S \ {x})

\* ------------------------------------------------------------------- claims

\* C1: the sweep never removes an entry in which its callback found a bound,
\* open session: after the callback returns for such an entry past its
\* deadline, the entry is still in the cache when the sweep moves on, with a new
\* deadline, and nothing removes it in between
C1_SweepKeepsLiveBinding ==
    [][(pc[SweepProc] = "sw_apply" /\ swLive)
         => /\ swItem \in items'
            /\ pc'[SweepProc] # "sw_apply" => swItem \notin expired']_vars

C1_Witness ==
    /\ pc[SweepProc] = "sw_next"
    /\ swLive
    /\ swItem \in items
    /\ session[swItem] # Nil

\* C2: a SendData that returns nil has written frames only to the session
\* bound to its token, and the frames, joined in order, are the body
C2_SendDeliversBody ==
    \A p \in Workers :
        (pc[p] = "sd_ret" /\ res[p] = "nil")
          => /\ Flatten(Chunks(sent[p])) = Body(bodyLen[p])
             /\ \A i \in 1..Len(sent[p]) : sent[p][i][1] = session[tok[p]]

C2_Witness ==
    \E p \in Workers :
        /\ pc[p] = "sd_ret"
        /\ res[p] = "nil"
        /\ Len(sent[p]) = 2
        /\ \E c \in Channels : c # session[tok[p]] /\ ch[c] = "accepted"

\* C3: once a DisposeToken of a token has returned, the token is in the cache
\* no more, a SendData that looks it up returns "token not found", a
\* RegisterSession that looks it up fails and its session is rejected, and
\* another DisposeToken of it leaves the cache as it is
C3_DisposedStaysGone ==
    /\ [](disposed \cap items = {})
    /\ [][\A p \in Workers :
            /\ (pc[p] = "sd_get" /\ pc'[p] # "sd_get" /\ tok[p] \in disposed)
                 => (pc'[p] = "sd_ret" /\ res'[p] = "TokenNotFound")
            /\ (pc[p] = "rs_get" /\ pc'[p] # "rs_get" /\ tok[p] \in disposed)
                 => (pc'[p] = "idle" /\ ch'[chn[p]] = "rejected" /\ session' = session)
            /\ (pc[p] = "dt_remove" /\ pc'[p] # "dt_remove" /\ tok[p] \in disposed)
                 => (pc'[p] = "idle" /\ items' = items /\ session' = session)]_vars

C3_Witness ==
    \E p, q \in Workers :
        /\ pc[p] = "sd_ret"
        /\ res[p] = "TokenNotFound"
        /\ tok[p] \in disposed
        /\ pc[q] = "dt_wait"
        /\ tok[q] = tok[p]

C5_NoDeadlock == CanGoOn({}) = Procs

C5_Witness ==
    \E p \in Workers :
        /\ pc[p] \in {"rt_set", "rs_get", "dt_remove"}
        /\ cacheMu = {SweepProc}
        /\ pc[SweepProc] = "sw_next"
        /\ items \cap expired # {}

\* C6: an entry past its deadline in which the callback found no session, or a
\* closed one, is removed: when the sweep moves on the token is in the cache no
\* more, and a lookup of it finds nothing
C6_SweepEvictsUnbound ==
    [][(pc[SweepProc] = "sw_apply" /\ ~swLive /\ pc'[SweepProc] # "sw_apply")
         => swItem \notin items']_vars

C6_Witness ==
    /\ pc[SweepProc] = "sw_next"
    /\ swItem \in Tokens
    /\ ~swLive
    /\ swItem \notin items
    /\ session[swItem] = Nil

\* C7: a SendData for a token that is not in the cache returns "token not
\* found", and none of its steps writes a frame or changes a counter, the
\* histogram or the cache
C7_UnknownTokenFrame ==
    [][\A p \in Workers :
         /\ (pc[p] = "idle" /\ pc'[p] = "sd_get")
              => UNCHANGED <<frames, metrics, table>>
         /\ (pc[p] = "sd_get" /\ pc'[p] # "sd_get" /\ tok[p] \notin items)
              => /\ pc'[p] = "sd_ret"
                 /\ res'[p] = "TokenNotFound"
                 /\ sent'[p] = <<>>
                 /\ UNCHANGED <<frames, metrics, table>>
         /\ (pc[p] = "sd_ret" /\ pc'[p] # "sd_ret" /\ res[p] = "TokenNotFound")
              => UNCHANGED <<frames, metrics, table>>]_vars

C7_Witness ==
    \E p \in Workers :
        /\ pc[p] = "sd_ret"
        /\ res[p] = "TokenNotFound"
        /\ tok[p] = UnknownToken
        /\ items # {}

\* C8: a SendData for a token that is in the cache with no session returns
\* "no session associated with this token"; none of its steps writes a frame
\* or changes a counter of a token, and the token stays in the cache, unbound
C8_UnboundTokenFrame ==
    [][\A p \in Workers :
         /\ (pc[p] = "sd_get" /\ pc'[p] # "sd_get" /\ tok[p] \in items
               /\ session[tok[p]] = Nil)
              => /\ pc'[p] = "sd_ret"
                 /\ res'[p] = "NoSession"
                 /\ sent'[p] = <<>>
                 /\ tok[p] \in items'
                 /\ session'[tok[p]] = Nil
                 /\ UNCHANGED <<frames, sendMetrics>>
         /\ (pc[p] = "sd_ret" /\ pc'[p] # "sd_ret" /\ res[p] = "NoSession")
              => UNCHANGED <<frames, sendMetrics, table>>]_vars

C8_Witness ==
    \E p \in Workers :
        /\ pc[p] = "sd_ret"
        /\ res[p] = "NoSession"
        /\ tok[p] \in items
        /\ session[tok[p]] = Nil

\* C9: a session whose connect was refused (no token in its Keys, or
\* RegisterSession failed) has had Close called on it, is in no record, and no
\* frame has ever been written to it
C9_RejectedNeverBound ==
    \A c \in Channels :
        ch[c] = "rejected"
          => /\ life[c] # "open"
             /\ \A t \in Tokens : session[t] # c
             /\ frames[c] = 0
             /\ \A p \in Workers : \A i \in 1..Len(sent[p]) : sent[p][i][1] # c

C9_Witness ==
    \E c \in Channels :
        /\ ch[c] = "rejected"
        /\ chKey[c] \in Tokens
        /\ \E p \in Workers : pc[p] = "sd_ret" /\ res[p] = "nil" /\ sent[p] # <<>>

\* C10: a record's session is set at most once: once a record holds a session,
\* no step puts another session (or none) in it
C10_SessionSetOnce ==
    [][\A t \in Tokens : session[t] # Nil => session'[t] = session[t]]_vars

\* C11: a Write that fails ends the call: the step in which it fails writes no
\* frame and changes neither counter nor the histogram, the call is at its
\* return with the Write's error, and from there to the return it reads
\* nothing more of the body and writes nothing more
C11_WriteErrorAborts ==
    [][\A p \in Workers :
         /\ (pc[p] = "sd_read" /\ pc'[p] = "sd_ret" /\ res'[p] = "WriteError")
              => /\ sent'[p] = sent[p]
                 /\ UNCHANGED <<frames, sendMetrics>>
         /\ (pc[p] = "sd_ret" /\ res[p] = "WriteError")
              => \/ UNCHANGED <<pc[p], pos[p], rd[p], sent[p], res[p]>>
                 \/ pc'[p] = "idle" /\ UNCHANGED <<frames, sendMetrics>>]_vars

C11_Witness ==
    \E p \in Workers :
        /\ pc[p] = "sd_ret"
        /\ res[p] = "WriteError"
        /\ Len(sent[p]) = 1
        /\ pos[p] = bodyLen[p]
        /\ tokenMessages[tok[p]] = 1
        /\ tokenBytes[tok[p]] < pos[p]

\* C12: the callback and the sweep run under the lock of the methods: the
\* callback never reads the session of a record while a RegisterSession for
\* that token holds r.mu for writing and is at its assignment, and the sweep
\* never removes or renews an entry while a method holds r.mu for writing
C12_SweepUnderEngineLock ==
    [][/\ (pc[SweepProc] = "sw_next" /\ pc'[SweepProc] = "sw_apply")
            => \A p \in Workers : ~(pc[p] = "rs_assign" /\ tok[p] = swItem')
       /\ (pc[SweepProc] = "sw_apply" /\ pc'[SweepProc] = "sw_next")
            => ~WriteLocked]_vars

\* C13: the removed counter counts the tokens that have left the cache: between
\* the operations it is the number of tokens set minus the number still in the
\* cache, and it never exceeds the number of tokens set
C13_RemovedCountedOnce ==
    /\ tokenRemovedCounter <= tokenCounter
    /\ pc[SweepProc] # "sw_apply"
         => tokenRemovedCounter = tokenCounter - Cardinality(items)

\* C14: while a SendData is between its RLock and its return, no RegisterToken,
\* RegisterSession or DisposeToken is past its Lock, for any token, and no
\* step sets a token, assigns a session or completes a disposal; the writers
\* wait, while several SendData are in the loop together
C14_SendsHoldOffWriters ==
    /\ [](SendInFlight => ~WriteLocked)
    /\ [][SendInFlight
           => /\ session' = session
              /\ tokenCounter' = tokenCounter
              /\ disposed' = disposed]_vars

C14_Witness ==
    \E p, q, w \in Workers :
        /\ p # q
        /\ pc[p] = "sd_read" /\ sent[p] # <<>>
        /\ pc[q] = "sd_read" /\ sent[q] # <<>>
        /\ pc[w] \in {"rt_wait", "rs_wait", "dt_wait"}

\* C15: the counters of a token count the chunks written under it: a step
\* that writes a chunk of n bytes for a token raises that token's message
\* counter by 1, its byte counter by n and the histogram at n by 1, the last
\* chunk of a body as any other, and no other step changes them; so the
\* messages counted are the frames written, and the bytes counted are the sizes
\* observed
C15_CountersMatchChunks ==
    /\ [](/\ Total(tokenMessages, Tokens) = Total(frames, Channels)
          /\ Total(tokenBytes, Tokens)
               = Total([n \in 1..ChunkSize |-> n * histogram[n]], 1..ChunkSize))
    /\ [][\/ \E p \in Workers :
              /\ Len(sent'[p]) = Len(sent[p]) + 1
              /\ LET n == Len(sent'[p][Len(sent'[p])][2])
                 IN /\ tokenMessages' = [tokenMessages EXCEPT ![tok[p]] = @ + 1]
                    /\ tokenBytes' = [tokenBytes EXCEPT ![tok[p]] = @ + n]
                    /\ histogram' = [histogram EXCEPT ![n] = @ + 1]
          \/ /\ \A p \in Workers : Len(sent'[p]) <= Len(sent[p])
             /\ UNCHANGED sendMetrics]_vars

C15_Witness ==
    \E p \in Workers :
        /\ pc[p] = "sd_ret"
        /\ res[p] = "nil"
        /\ bodyLen[p] = ChunkSize
        /\ Len(sent[p]) = 1
        /\ tokenMessages[tok[p]] = 1
        /\ tokenBytes[tok[p]] = ChunkSize

\* C16: a Read that reports the end of the body, with bytes or without, is the
\* last Read: in that step the bytes (if any) are written and the call is at
\* its return, with nil unless the Write failed
C16_EofEndsSend ==
    [][\A p \in Workers :
         (pc[p] = "sd_read" /\ rd[p] = "open" /\ rd'[p] = "eof")
           => /\ pc'[p] = "sd_ret"
              /\ \/ res'[p] = "nil"
                 \/ res'[p] = "WriteError" /\ sent'[p] = sent[p]]_vars

\* C18: a record that holds an open session is not removed: no step of a
\* handler takes a token out of the cache while the session in its record is
\* open (the sweep's own removals are the matter of C1 and C12)
C18_BoundOpenNeverRemoved ==
    [][\A t \in Tokens :
         (/\ t \in items
          /\ session[t] # Nil
          /\ life[session[t]] = "open"
          /\ pc[SweepProc] # "sw_apply")
           => t \in items']_vars

\* C19: a Read that reports an error other than the end of the body is the
\* last Read: in that step the bytes (if any) are written and the call is at
\* its return with that error, unless the Write failed
C19_ReadErrorReturned ==
    [][\A p \in Workers :
         (pc[p] = "sd_read" /\ rd[p] = "open" /\ rd'[p] = "err")
           => /\ pc'[p] = "sd_ret"
              /\ \/ res'[p] = "ReadError"
                 \/ res'[p] = "WriteError" /\ sent'[p] = sent[p]]_vars

\* C17: once a session that carries a token has closed, the disconnect handler
\* calls DisposeToken for the token, the Lock is granted when the sends in
\* flight have returned, and the token leaves the cache
C17_DisconnectDisposes ==
    \A c \in Channels : \A t \in Tokens :
        (life[c] = "closed" /\ chKey[c] = t) ~> (t \notin items)

C17_Witness ==
    \E p, q \in Workers : \E c \in Channels :
        /\ pc[p] = "dt_wait"
        /\ tok[p] \in items
        /\ chKey[c] = tok[p]
        /\ life[c] = "gone"
        /\ pc[q] = "sd_read"
        /\ sent[q] # <<>>

====
